---- MODULE Spec2Model ----
(***************************************************************************)
(* The registration layer of kopf (kopf/on.py): the decorators that turn   *)
(* callbacks into handler descriptors and append them to a registry.       *)
(*                                                                         *)
(* Conventions.                                                            *)
(*  - A Python string is a sequence of one-character strings, so that      *)
(*    joining, splitting and prefixing are computed and not assumed.       *)
(*  - An Optional[T] value is a sequence of length at most one: <<>> is    *)
(*    None and <<v>> is the value v.                                       *)
(*  - A callback is represented by its declared name.                      *)
(*  - The pass-through options errors, timeout, retries, backoff, cooldown *)
(*    and when are copied verbatim into the descriptor by every entry      *)
(*    point and read by none of them; they are left out of the records.    *)
(***************************************************************************)
EXTENDS Integers, Sequences, FiniteSets, TLC

VARIABLES
    registries,        \* OperatorRegistry objects: name -> the three indices
    given_registry,    \* a ResourceChangingRegistry object passed as registry=
    invocations,       \* per task, the one invocation the reactor runs in it:
                       \* the descriptor run and the invocation's sub-registry
    handler_var,       \* handling.handler_var, per task: Optional[handler]
    subregistry_var,   \* handling.subregistry_var, per task: Optional[ref],
                       \* ref t being the sub-registry of invocations[t]
    warnings,          \* what warnings.warn was called with, tagged by call
    log,               \* history of the registration calls made (observer)
    calls              \* number of registration calls made since Init

vars == <<registries, given_registry, invocations, handler_var,
          subregistry_var, warnings, log, calls>>

(***************************************************************************)
(* Bounds.                                                                 *)
(***************************************************************************)
MaxCalls == 2

(***************************************************************************)
(* Values.                                                                 *)
(***************************************************************************)
None == <<>>

Some(v) == <<v>>

SEP == "/"

DOT == "."

Tasks == {"t1", "t2"}

Registries == {"default", "explicit"}

Widgets == <<"acme.io", "v1", "widgets">>

Gadgets == <<"acme.io", "v1", "gadgets">>

Resources == {Widgets, Gadgets}

(***************************************************************************)
(* Collaborators of on.py that live in other modules of the package.       *)
(***************************************************************************)

\* registries.get_default_registry(): the process-wide OperatorRegistry.
get_default_registry == "default"

\* resources.Resource(group, version, plural): equal iff all three are equal.
Resource(group, version, plural) == <<group, version, plural>>

\* str.join: the segments with sep between consecutive ones.
RECURSIVE join(_, _)
join(sep, segs) ==
    IF segs = <<>> THEN <<>>
    ELSE IF Len(segs) = 1 THEN segs[1]
    ELSE segs[1] \o <<sep>> \o join(sep, Tail(segs))

\* str.split(sep): cut at every sep; a string without sep, the empty one
\* included, is one segment.
RECURSIVE split(_, _)
split(s, sep) ==
    IF \E i \in 1..Len(s) : s[i] = sep
    THEN LET i == CHOOSE k \in 1..Len(s) :
                      s[k] = sep /\ \A j \in 1..(k - 1) : s[j] # sep
         IN <<SubSeq(s, 1, i - 1)>> \o split(SubSeq(s, i + 1, Len(s)), sep)
    ELSE <<s>>

\* dicts.parse_field: a field given as one dotted string is split on ".",
\* a field given as a sequence of segments is taken as it is.
parse_field(field) ==
    IF field.dotted THEN split(field.str, DOT) ELSE field.segs

\* registries.generate_id: the explicit id, else the callback's declared
\* name; then "/" and the suffix when there is a non-empty one; then the
\* prefix and "/" in front when a prefix is supplied.
generate_id(fn, id, prefix, suffix) ==
    LET base     == IF id # None THEN id[1] ELSE fn
        suffixed == IF suffix # None /\ suffix[1] # <<>>
                    THEN base \o <<SEP>> \o suffix[1] ELSE base
    IN IF prefix # None THEN prefix[1] \o <<SEP>> \o suffixed ELSE suffixed

\* handlers.ActivityHandler
ActivityHandler(fn, id, activity) ==
    [fn |-> fn, id |-> id, activity |-> activity]

\* handlers.ResourceWatchingHandler
ResourceWatchingHandler(fn, id, labels, annotations) ==
    [fn |-> fn, id |-> id, labels |-> labels, annotations |-> annotations]

\* handlers.ResourceChangingHandler
ResourceChangingHandler(fn, id, field, labels, annotations, initial, deleted, requires_finalizer, reason) ==
    [fn |-> fn, id |-> id, field |-> field,
     labels |-> labels, annotations |-> annotations,
     initial |-> initial, deleted |-> deleted,
     requires_finalizer |-> requires_finalizer, reason |-> reason]

\* An empty OperatorRegistry.
OperatorRegistry ==
    [activity_handlers |-> <<>>,
     resource_watching_handlers |-> [r \in Resources |-> <<>>],
     resource_changing_handlers |-> [r \in Resources |-> <<>>]]

(***************************************************************************)
(* _warn_deprecated_filters: one warning per entry whose value is None,    *)
(* the labels first and then the annotations.  A filter mapping is a       *)
(* sequence of <<key, value>> items in the mapping's iteration order; the  *)
(* value is Optional.                                                      *)
(***************************************************************************)
RECURSIVE deprecated_items(_, _)
deprecated_items(items, msg) ==
    IF items = <<>> THEN <<>>
    ELSE (IF items[1][2] = None THEN <<msg>> ELSE <<>>)
         \o deprecated_items(Tail(items), msg)

warn_deprecated_filters_once(labels, annotations) ==
    IF \/ labels # None /\ deprecated_items(labels[1], "label") # <<>>
       \/ annotations # None /\ deprecated_items(annotations[1], "annotation") # <<>>
    THEN <<"label">> ELSE <<>>

warn_deprecated_filters(labels, annotations) ==
    (IF labels # None THEN deprecated_items(labels[1], "label") ELSE <<>>)
    \o (IF annotations # None
        THEN deprecated_items(annotations[1], "annotation") ELSE <<>>)

\* warnings.warn, called once for each message, for the call now being made.
warn(msgs) ==
    warnings' = warnings \o [i \in 1..Len(msgs) |->
                                [call |-> Len(log) + 1, msg |-> msgs[i]]]

(***************************************************************************)
(* The record of one registration call: what it was called with and how it *)
(* ended.  resource, field and optional are None where the entry point has *)
(* no such argument.  For a dynamic registration, dyn holds what the call  *)
(* found in its execution context and where its descriptor went.           *)
(***************************************************************************)
Call(entry, task, registry, resource, fn, id, field, optional, labels, annotations, dyn, outcome) ==
    [entry |-> entry, task |-> task, registry |-> registry,
     resource |-> resource, fn |-> fn, id |-> id, field |-> field,
     optional |-> optional, labels |-> labels, annotations |-> annotations,
     dyn |-> dyn, outcome |-> outcome]

record(call) ==
    /\ log' = Append(log, call)
    /\ calls' = calls + 1

real_registry_of_default(registry) == get_default_registry

real_registry_of(registry) ==
    IF registry # None THEN registry[1] ELSE get_default_registry

append_front(list, handler) == <<handler>> \o list

\* list.append
append(list, handler) == Append(list, handler)

add_activity(registry, handler) ==
    registries' = [registries EXCEPT
        ![real_registry_of(registry)].activity_handlers = append(@, handler)]

add_resource_watching(registry, real_resource, handler) ==
    registries' = [registries EXCEPT
        ![real_registry_of(registry)].resource_watching_handlers[real_resource] =
            append(@, handler)]

add_resource_changing(registry, real_resource, handler) ==
    registries' = [registries EXCEPT
        ![real_registry_of(registry)].resource_changing_handlers[real_resource] =
            append(@, handler)]

context == <<given_registry, invocations, handler_var, subregistry_var>>

(***************************************************************************)
(* The static entry points.                                                *)
(***************************************************************************)
activity(kind, entry, id, registry, fn) ==
    LET real_id == generate_id(fn, id, None, None)
        handler == ActivityHandler(fn, real_id, kind)
    IN /\ calls < MaxCalls
       /\ add_activity(registry, handler)
       /\ record(Call(entry, "main", registry, None, fn, id, None, None,
                      None, None, None, "ok"))
       /\ UNCHANGED <<context, warnings>>

startup(id, registry, fn) == activity("STARTUP", "startup", id, registry, fn)

cleanup(id, registry, fn) == activity("CLEANUP", "cleanup", id, registry, fn)

login(id, registry, fn) == activity("AUTHENTICATION", "login", id, registry, fn)

probe(id, registry, fn) == activity("PROBE", "probe", id, registry, fn)

resume(group, version, plural, id, registry, deleted, labels, annotations, fn) ==
    LET real_resource == Resource(group, version, plural)
        real_id == generate_id(fn, id, None, None)
        handler == ResourceChangingHandler(fn, real_id, None, labels, annotations,
                                           Some(TRUE), deleted, None, None)
    IN /\ calls < MaxCalls
       /\ warn(warn_deprecated_filters(labels, annotations))
       /\ add_resource_changing(registry, real_resource, handler)
       /\ record(Call("resume", "main", registry, Some(real_resource), fn, id,
                      None, None, labels, annotations, None, "ok"))
       /\ UNCHANGED context

create(group, version, plural, id, registry, labels, annotations, fn) ==
    LET real_resource == Resource(group, version, plural)
        real_id == generate_id(fn, id, None, None)
        handler == ResourceChangingHandler(fn, real_id, None, labels, annotations,
                                           None, None, None, Some("CREATE"))
    IN /\ calls < MaxCalls
       /\ warn(warn_deprecated_filters(labels, annotations))
       /\ add_resource_changing(registry, real_resource, handler)
       /\ record(Call("create", "main", registry, Some(real_resource), fn, id,
                      None, None, labels, annotations, None, "ok"))
       /\ UNCHANGED context

update(group, version, plural, id, registry, labels, annotations, fn) ==
    LET real_resource == Resource(group, version, plural)
        real_id == generate_id(fn, id, None, None)
        handler == ResourceChangingHandler(fn, real_id, None, labels, annotations,
                                           None, None, None, Some("UPDATE"))
    IN /\ calls < MaxCalls
       /\ warn(warn_deprecated_filters(labels, annotations))
       /\ add_resource_changing(registry, real_resource, handler)
       /\ record(Call("update", "main", registry, Some(real_resource), fn, id,
                      None, None, labels, annotations, None, "ok"))
       /\ UNCHANGED context

delete_requires_finalizer_unnegated(optional) == optional = Some(TRUE)

\* bool(not optional): None and False give True, True gives False.
delete_requires_finalizer(optional) == ~(optional = Some(TRUE))

delete(group, version, plural, id, registry, optional, labels, annotations, fn) ==
    LET real_resource == Resource(group, version, plural)
        real_id == generate_id(fn, id, None, None)
        handler == ResourceChangingHandler(fn, real_id, None, labels, annotations,
                       None, None, Some(delete_requires_finalizer(optional)),
                       Some("DELETE"))
    IN /\ calls < MaxCalls
       /\ warn(warn_deprecated_filters(labels, annotations))
       /\ add_resource_changing(registry, real_resource, handler)
       /\ record(Call("delete", "main", registry, Some(real_resource), fn, id,
                      None, optional, labels, annotations, None, "ok"))
       /\ UNCHANGED context

field_real_field_stored_empty(field) == Some(parse_field(field))

\* dicts.parse_field(field) or None: an empty tuple is stored as None.
field_real_field(field) ==
    IF parse_field(field) # <<>> THEN Some(parse_field(field)) ELSE None

field_suffix_slashed(real_field) ==
    join(SEP, IF real_field # None THEN real_field[1] ELSE <<>>)

\* ".".join(real_field or [])
field_suffix(real_field) ==
    join(DOT, IF real_field # None THEN real_field[1] ELSE <<>>)

field(group, version, plural, field_, id, registry, labels, annotations, fn) ==
    LET real_resource == Resource(group, version, plural)
        real_field == field_real_field(field_)
        real_id == generate_id(fn, id, None, Some(field_suffix(real_field)))
        handler == ResourceChangingHandler(fn, real_id, real_field, labels,
                       annotations, None, None, None, None)
    IN /\ calls < MaxCalls
       /\ warn(warn_deprecated_filters(labels, annotations))
       /\ add_resource_changing(registry, real_resource, handler)
       /\ record(Call("field", "main", registry, Some(real_resource), fn, id,
                      Some(field_), None, labels, annotations, None, "ok"))
       /\ UNCHANGED context

event(group, version, plural, id, registry, labels, annotations, fn) ==
    LET real_resource == Resource(group, version, plural)
        real_id == generate_id(fn, id, None, None)
        handler == ResourceWatchingHandler(fn, real_id, labels, annotations)
    IN /\ calls < MaxCalls
       /\ warn(warn_deprecated_filters(labels, annotations))
       /\ add_resource_watching(registry, real_resource, handler)
       /\ record(Call("event", "main", registry, Some(real_resource), fn, id,
                      None, None, labels, annotations, None, "ok"))
       /\ UNCHANGED context

(***************************************************************************)
(* The execution context, kept by the reactor (kopf.reactor.handling).     *)
(***************************************************************************)

\* ContextVar.get() of a context variable without a default: the value set
\* in the calling task's context; None here stands for LookupError.
get(var, task) == var[task]

\* Every descriptor the reactor can be running: the registered
\* resource-changing handlers and the sub-handlers of earlier invocations.
Range(s) == {s[i] : i \in 1..Len(s)}

Invocable ==
    UNION {Range(registries[r].resource_changing_handlers[k]) :
              r \in Registries, k \in Resources}
    \cup UNION {Range(invocations[t].subregistry) : t \in Tasks}
    \cup Range(given_registry)

\* Before invoking a resource-changing callback the reactor installs the
\* descriptor being run and a fresh, empty sub-registry in the context of
\* the task that runs it.  A task runs one invocation.
Invoke(task, handler) ==
    /\ invocations[task].handler = None
    /\ handler \in Invocable
    /\ invocations' = [invocations EXCEPT
           ![task] = [handler |-> Some(handler), subregistry |-> <<>>]]
    /\ handler_var' = [handler_var EXCEPT ![task] = Some(handler)]
    /\ subregistry_var' = [subregistry_var EXCEPT ![task] = Some(task)]
    /\ UNCHANGED <<registries, given_registry, warnings, log, calls>>

\* After the invocation the context variables are reset; the sub-registry's
\* contents stay with the reactor.
Return(task) ==
    /\ handler_var[task] # None
    /\ handler_var' = [handler_var EXCEPT ![task] = None]
    /\ subregistry_var' = [subregistry_var EXCEPT ![task] = None]
    /\ UNCHANGED <<registries, given_registry, invocations, warnings, log, calls>>

(***************************************************************************)
(* Dynamic registration: this and register.  The task is the one the call  *)
(* is made in; a registry argument is a reference to a                     *)
(* ResourceChangingRegistry: GIVEN is the object given_registry, a task    *)
(* name is the sub-registry of that task's invocation.                     *)
(***************************************************************************)

this_lookup_fails_without_registry(registry, task) ==
    registry = None /\ get(subregistry_var, task) = None

\* handling.handler_var.get() and, without a registry argument,
\* handling.subregistry_var.get(): either lookup may raise.
this_lookup_fails(registry, task) ==
    \/ get(handler_var, task) = None
    \/ (registry = None /\ get(subregistry_var, task) = None)

this_real_registry_shared(registry, task) ==
    IF registry # None THEN registry[1] ELSE "t1"

this_real_registry_given(registry, task) ==
    IF registry # None THEN registry[1] ELSE "given"

\* registry if registry is not None else handling.subregistry_var.get()
this_real_registry(registry, task) ==
    IF registry # None THEN registry[1] ELSE get(subregistry_var, task)[1]

this_prefix_dropped(parent_handler) == None

this_prefix_numbered(parent_handler) ==
    IF parent_handler # None
    THEN Some(parent_handler[1].id \o <<ToString(calls)>>) ELSE None

\* parent_handler.id if parent_handler else None
this_prefix(parent_handler) ==
    IF parent_handler # None THEN Some(parent_handler[1].id) ELSE None

GIVEN == "given"

\* real_registry.append(handler)
registry_append(real_registry, handler) ==
    /\ given_registry' = IF real_registry = GIVEN
                         THEN append(given_registry, handler)
                         ELSE given_registry
    /\ invocations' = IF real_registry = GIVEN
                      THEN invocations
                      ELSE [invocations EXCEPT
                               ![real_registry].subregistry = append(@, handler)]

registry_len(real_registry) ==
    IF real_registry = GIVEN THEN Len(given_registry)
    ELSE Len(invocations[real_registry].subregistry)

\* What the call found in its context, and where its descriptor went.
Found(task, at) ==
    Some([parent |-> handler_var[task], ctx |-> subregistry_var[task], at |-> at])

this(id, registry, labels, annotations, fn, task) ==
    /\ calls < MaxCalls
    /\ warn(warn_deprecated_filters(labels, annotations))
    /\ IF this_lookup_fails(registry, task)
       THEN /\ record(Call("this", task, registry, None, fn, id, None, None,
                           labels, annotations, Found(task, None), "LookupError"))
            /\ UNCHANGED <<given_registry, invocations>>
       ELSE LET parent_handler == get(handler_var, task)
                real_registry == this_real_registry(registry, task)
                real_id == generate_id(fn, id, this_prefix(parent_handler), None)
                handler == ResourceChangingHandler(fn, real_id, None, labels,
                               annotations, None, None, None, None)
            IN /\ registry_append(real_registry, handler)
               /\ record(Call("this", task, registry, None, fn, id, None, None,
                              labels, annotations,
                              Found(task, Some([ref |-> real_registry,
                                     pos |-> registry_len(real_registry) + 1])),
                              "ok"))
    /\ UNCHANGED <<registries, handler_var, subregistry_var>>

\* register(fn, ...) is this(...)(fn).
register(fn, id, registry, labels, annotations, task) ==
    this(id, registry, labels, annotations, fn, task)

(***************************************************************************)
(* The inputs of the static registration layer.                            *)
(***************************************************************************)
Fns == {<<"f">>, <<"g">>}

RegistryArgs == {None, Some("explicit")}

Dotted(s) == [dotted |-> TRUE, str |-> s, segs |-> <<>>]

Segments(ss) == [dotted |-> FALSE, str |-> <<>>, segs |-> ss]

SpecSize == <<"s", ".", "z">>

FieldArgs == {Dotted(SpecSize), Dotted(<<"s">>), Dotted(<<>>), Segments(<<>>)}

OptionalArgs == {None, Some(TRUE), Some(FALSE)}

IdArgs == {None, Some(<<"x">>)}

Init ==
    /\ registries = [r \in Registries |-> OperatorRegistry]
    /\ given_registry = <<>>
    /\ invocations = [t \in Tasks |-> [handler |-> None, subregistry |-> <<>>]]
    /\ handler_var = [t \in Tasks |-> None]
    /\ subregistry_var = [t \in Tasks |-> None]
    /\ warnings = <<>>
    /\ log = <<>>
    /\ calls = 0

Next ==
    \/ \E registry \in RegistryArgs : startup(None, registry, <<"f">>)
    \/ \E registry \in RegistryArgs : cleanup(None, registry, <<"f">>)
    \/ \E registry \in RegistryArgs : login(None, registry, <<"f">>)
    \/ \E registry \in RegistryArgs : probe(None, registry, <<"f">>)
    \/ \E r \in Resources, fn \in Fns, registry \in RegistryArgs :
          resume(r[1], r[2], r[3], None, registry, None, None, None, fn)
    \/ \E r \in Resources, fn \in Fns, registry \in RegistryArgs, id \in IdArgs :
          create(r[1], r[2], r[3], id, registry, None, None, fn)
    \/ \E r \in Resources, fn \in Fns, registry \in RegistryArgs :
          update(r[1], r[2], r[3], None, registry, None, None, fn)
    \/ \E r \in Resources, fn \in Fns, registry \in RegistryArgs,
          optional \in {None, Some(TRUE)} :
          delete(r[1], r[2], r[3], None, registry, optional, None, None, fn)
    \/ \E r \in Resources, fn \in Fns, registry \in RegistryArgs,
          f \in FieldArgs :
          field(r[1], r[2], r[3], f, None, registry, None, None, fn)
    \/ \E r \in Resources, fn \in Fns, registry \in RegistryArgs :
          event(r[1], r[2], r[3], None, registry, None, None, fn)

Spec == Init /\ [][Next]_vars

(***************************************************************************)
(* The registration layer with metadata filters: the entry points that     *)
(* take labels and annotations, called with and without deprecated (None)  *)
(* match rules.                                                            *)
(***************************************************************************)
LabelArgs ==
    {None,
     Some(<< <<"a", Some("v")>> >>),
     Some(<< <<"a", None>> >>),
     Some(<< <<"a", None>>, <<"b", None>> >>)}

AnnotationArgs ==
    {None,
     Some(<< <<"c", Some("v")>> >>),
     Some(<< <<"c", None>> >>)}

NextFilters ==
    \/ \E labels \in LabelArgs, annotations \in AnnotationArgs :
          resume("acme.io", "v1", "widgets", None, None, None, labels, annotations, <<"f">>)
    \/ \E labels \in LabelArgs, annotations \in AnnotationArgs :
          create("acme.io", "v1", "widgets", None, None, labels, annotations, <<"f">>)
    \/ \E labels \in LabelArgs, annotations \in AnnotationArgs :
          update("acme.io", "v1", "widgets", None, None, labels, annotations, <<"f">>)
    \/ \E labels \in LabelArgs, annotations \in AnnotationArgs :
          delete("acme.io", "v1", "widgets", None, None, None, labels, annotations, <<"f">>)
    \/ \E labels \in LabelArgs, annotations \in AnnotationArgs :
          field("acme.io", "v1", "widgets", Dotted(SpecSize), None, None, labels, annotations, <<"f">>)
    \/ \E labels \in LabelArgs, annotations \in AnnotationArgs :
          event("acme.io", "v1", "widgets", None, None, labels, annotations, <<"f">>)

SpecFilters == Init /\ [][NextFilters]_vars

(***************************************************************************)
(* The running operator: the module has been loaded (create on f, then     *)
(* field "s.z" on g, both for widgets in the default registry), the        *)
(* reactor invokes handlers in two tasks, and the handlers register        *)
(* sub-handlers; late static registrations still happen.                   *)
(***************************************************************************)
LoadedHandlers ==
    << ResourceChangingHandler(<<"f">>, <<"f">>, None, None, None,
                               None, None, None, Some("CREATE")),
       ResourceChangingHandler(<<"g">>, <<"g", "/", "s", ".", "z">>,
                               Some(<< <<"s">>, <<"z">> >>), None, None,
                               None, None, None, None) >>

LoadedRegistries ==
    [r \in Registries |->
        IF r = "default"
        THEN [OperatorRegistry EXCEPT
                 !.resource_changing_handlers[Widgets] = LoadedHandlers]
        ELSE OperatorRegistry]

LoadedLog ==
    << Call("create", "main", None, Some(Widgets), <<"f">>, None, None, None,
            None, None, None, "ok"),
       Call("field", "main", None, Some(Widgets), <<"g">>, None,
            Some(Dotted(SpecSize)), None, None, None, None, "ok") >>

InitLoaded ==
    /\ registries = LoadedRegistries
    /\ given_registry = <<>>
    /\ invocations = [t \in Tasks |-> [handler |-> None, subregistry |-> <<>>]]
    /\ handler_var = [t \in Tasks |-> None]
    /\ subregistry_var = [t \in Tasks |-> None]
    /\ warnings = <<>>
    /\ log = LoadedLog
    /\ calls = 0

SubRegistryArgs == {None, Some(GIVEN)}

NextDyn ==
    \/ \E task \in Tasks, handler \in Invocable : Invoke(task, handler)
    \/ \E task \in Tasks : Return(task)
    \/ \E task \in Tasks, id \in IdArgs, registry \in SubRegistryArgs :
          this(id, registry, None, None, <<"f">>, task)
    \/ \E task \in Tasks, id \in IdArgs :
          register(<<"g">>, id, None, None, None, task)
    \/ resume("acme.io", "v1", "widgets", None, None, None, None, None, <<"f">>)
    \/ create("acme.io", "v1", "widgets", None, None, None, None, <<"f">>)
    \/ update("acme.io", "v1", "widgets", None, None, None, None, <<"f">>)
    \/ \E optional \in OptionalArgs :
          delete("acme.io", "v1", "widgets", None, None, optional, None, None, <<"f">>)
    \/ field("acme.io", "v1", "widgets", Dotted(SpecSize), None, None, None, None, <<"f">>)

SpecDyn == InitLoaded /\ [][NextDyn]_vars

(***************************************************************************)
(* Observations used by the properties below.  They read the call records  *)
(* and the registries, never the operators the entry points are made of.   *)
(***************************************************************************)
ChangingEntries == {"resume", "create", "update", "delete", "field"}

\* The registry object a recorded static call named.
RegistryOf(c) == IF c.registry = <<>> THEN "default" ELSE c.registry[1]

\* The entry point a resource-changing descriptor came from, read off the
\* descriptor: resume sets initial, create/update/delete set their reason,
\* field sets neither.
EntryOf(h) ==
    IF h.initial = <<TRUE>> THEN "resume"
    ELSE IF h.reason = <<"CREATE">> THEN "create"
    ELSE IF h.reason = <<"UPDATE">> THEN "update"
    ELSE IF h.reason = <<"DELETE">> THEN "delete"
    ELSE "field"

CallsUnder(reg, key, entries) ==
    LET Test(c) == /\ c.entry \in entries
                   /\ c.outcome = "ok"
                   /\ RegistryOf(c) = reg
                   /\ c.resource = <<key>>
    IN SelectSeq(log, Test)

\* A call was made in this step; MadeCall is its record.
CallMade == Len(log') = Len(log) + 1

MadeCall == log'[Len(log')]

ChangingList(c) ==
    registries[RegistryOf(c)].resource_changing_handlers[c.resource[1]]

ChangingListAfter(c) ==
    registries'[RegistryOf(c)].resource_changing_handlers[c.resource[1]]

EmptyPath(f) == IF f.dotted THEN f.str = <<>> ELSE f.segs = <<>>

BaseId(c) == IF c.id = <<>> THEN c.fn ELSE c.id[1]

(***************************************************************************)
(* C1.  Under every resource-type key of every registry, the changing list *)
(* holds exactly the descriptors that resume, create, update, delete and   *)
(* field registered under that key, in the order of the calls, and the     *)
(* watching list exactly those that event registered, in call order.       *)
(***************************************************************************)
C1_RegistrationOrder ==
    \A reg \in Registries, key \in Resources :
        LET changing == registries[reg].resource_changing_handlers[key]
            watching == registries[reg].resource_watching_handlers[key]
            cs == CallsUnder(reg, key, ChangingEntries)
            ws == CallsUnder(reg, key, {"event"})
        IN /\ Len(changing) = Len(cs)
           /\ \A i \in 1..Len(cs) :
                 /\ changing[i].fn = cs[i].fn
                 /\ EntryOf(changing[i]) = cs[i].entry
           /\ Len(watching) = Len(ws)
           /\ \A i \in 1..Len(ws) : watching[i].fn = ws[i].fn

\* Two different entry points contributed, for two different callbacks, to
\* one key's list.
C1_Witness ==
    \E reg \in Registries, key \in Resources :
        LET changing == registries[reg].resource_changing_handlers[key]
        IN /\ Len(changing) = 2
           /\ EntryOf(changing[1]) = "field"
           /\ EntryOf(changing[2]) = "create"
           /\ changing[1].fn # changing[2].fn

(***************************************************************************)
(* C5 as stated: a field registration with an empty field-path appends     *)
(* nothing.                                                                *)
(***************************************************************************)
C5_EmptyFieldRejected ==
    [][(CallMade /\ MadeCall.entry = "field" /\ EmptyPath(MadeCall.field[1]))
          => registries' = registries]_vars

(***************************************************************************)
(* C5 as the code has it: a field registration with an empty field-path    *)
(* returns normally and appends one descriptor, whose id is the plain id   *)
(* without a suffix and whose field-path is never the empty sequence: it   *)
(* is unset when the path has no segments.                                 *)
(***************************************************************************)
C5_EmptyFieldAccepted ==
    [][(CallMade /\ MadeCall.entry = "field" /\ EmptyPath(MadeCall.field[1]))
          => LET c == MadeCall
                 after == ChangingListAfter(c)
             IN /\ c.outcome = "ok"
                /\ Len(after) = Len(ChangingList(c)) + 1
                /\ after[Len(after)].id = BaseId(c)
                /\ after[Len(after)].field # <<<<>>>>
                /\ (~c.field[1].dotted => after[Len(after)].field = <<>>)]_vars

\* A field handler registered with an empty path sits in a registry.
C5_Witness ==
    /\ \E i \in 1..Len(log) :
          /\ log[i].entry = "field"
          /\ EmptyPath(log[i].field[1])
          /\ ~log[i].field[1].dotted
    /\ \E reg \in Registries, key \in Resources :
          \E i \in 1..Len(registries[reg].resource_changing_handlers[key]) :
             LET h == registries[reg].resource_changing_handlers[key][i]
             IN EntryOf(h) = "field" /\ h.field = <<>> /\ h.id = h.fn

(***************************************************************************)
(* C10.  create on F and then field with a non-empty dotted path P on G,   *)
(* under one key of one registry and without explicit ids, leave under     *)
(* that key exactly two changing descriptors: the first with id F and      *)
(* reason create, the second with id G/P, no reason, and the field-path P  *)
(* split on ".": segments free of ".", which joined by "." give P.         *)
(***************************************************************************)
C10_Scenario(c1, c2) ==
    /\ c1.entry = "create" /\ c1.id = <<>>
    /\ c2.entry = "field" /\ c2.id = <<>>
    /\ c2.field[1].dotted /\ c2.field[1].str # <<>>
    /\ c1.resource = c2.resource
    /\ RegistryOf(c1) = RegistryOf(c2)

C10_CreateThenField ==
    (Len(log) = 2 /\ C10_Scenario(log[1], log[2])) =>
        LET changing == ChangingList(log[1])
            P == log[2].field[1].str
        IN /\ Len(changing) = 2
           /\ changing[1].id = log[1].fn
           /\ changing[1].reason = <<"CREATE">>
           /\ changing[2].id = log[2].fn \o <<"/">> \o P
           /\ changing[2].reason = <<>>
           /\ changing[2].field # <<>>
           /\ join(".", changing[2].field[1]) = P
           /\ \A i \in 1..Len(changing[2].field[1]) :
                 \A j \in 1..Len(changing[2].field[1][i]) :
                    changing[2].field[1][i][j] # "."

\* make, then resize on spec.size: the loaded module of the running operator.
C10_Witness ==
    /\ Len(log) = 2 /\ C10_Scenario(log[1], log[2])
    /\ log = LoadedLog
    /\ registries = LoadedRegistries

(***************************************************************************)
(* Observations of the dynamic registrations.                              *)
(***************************************************************************)
IsDynamic(c) == c.entry = "this"

\* The call was made inside an execution context.
InContext(c) == c.dyn[1].parent # <<>> /\ c.dyn[1].ctx # <<>>

Heap(ref) ==
    IF ref = "given" THEN given_registry ELSE invocations[ref].subregistry

\* The descriptor a successful dynamic registration appended.
Appended(c) == Heap(c.dyn[1].at[1].ref)[c.dyn[1].at[1].pos]

DynamicCallsOf(task) ==
    LET Test(c) == /\ IsDynamic(c) /\ c.outcome = "ok"
                   /\ c.task = task /\ c.registry = <<>>
    IN SelectSeq(log, Test)

(***************************************************************************)
(* C2.  A dynamic registration made inside an execution context without a  *)
(* registry argument appends its descriptor to the sub-registry of that    *)
(* context, and the operator registries stay as they were.                 *)
(***************************************************************************)
C2_AppendsToSubRegistry ==
    [][(/\ CallMade /\ IsDynamic(MadeCall) /\ MadeCall.registry = <<>>
        /\ handler_var[MadeCall.task] # <<>>
        /\ subregistry_var[MadeCall.task] # <<>>)
          => LET own    == subregistry_var[MadeCall.task][1]
                 before == invocations[own].subregistry
                 after  == invocations'[own].subregistry
             IN /\ MadeCall.outcome = "ok"
                /\ Len(after) = Len(before) + 1
                /\ SubSeq(after, 1, Len(before)) = before
                /\ after[Len(after)].fn = MadeCall.fn
                /\ registries' = registries
                /\ given_registry' = given_registry]_vars

\* A sub-handler sits in a running invocation's sub-registry while the
\* operator registry holds what the module registered.
C2_Witness ==
    /\ registries = LoadedRegistries
    /\ \E t \in Tasks :
          /\ handler_var[t] # <<>>
          /\ invocations[t].subregistry # <<>>
          /\ DynamicCallsOf(t) # <<>>

(***************************************************************************)
(* C3.  Whatever the interleaving of the tasks, the sub-registry of an     *)
(* invocation holds exactly the descriptors that its own task registered   *)
(* without a registry argument, in call order, each under the id of the    *)
(* descriptor that invocation runs.                                        *)
(***************************************************************************)
C3_Isolation ==
    \A t \in Tasks :
        LET own == invocations[t].subregistry
            cs  == DynamicCallsOf(t)
        IN /\ Len(own) = Len(cs)
           /\ \A i \in 1..Len(own) :
                 /\ own[i].fn = cs[i].fn
                 /\ Len(own[i].id) > Len(invocations[t].handler[1].id)
                 /\ SubSeq(own[i].id, 1, Len(invocations[t].handler[1].id) + 1)
                       = invocations[t].handler[1].id \o <<"/">>

\* Two invocations run at once, for descriptors with different ids, and
\* each has registered a sub-handler.
C3_Witness ==
    /\ \A t \in Tasks : handler_var[t] # <<>> /\ Len(invocations[t].subregistry) = 1
    /\ handler_var["t1"][1].id # handler_var["t2"][1].id
    /\ log[Len(log) - 1].task # log[Len(log)].task

(***************************************************************************)
(* C4.  A dynamic registration made outside any execution context (no      *)
(* current descriptor, no sub-registry) raises at the call, with or        *)
(* without a registry argument, and appends nothing anywhere.              *)
(***************************************************************************)
C4_FailsOutsideContext ==
    [][(/\ CallMade /\ IsDynamic(MadeCall)
        /\ handler_var[MadeCall.task] = <<>>
        /\ subregistry_var[MadeCall.task] = <<>>)
          => /\ MadeCall.outcome = "LookupError"
             /\ registries' = registries
             /\ given_registry' = given_registry
             /\ invocations' = invocations]_vars

\* Both kinds of call were made outside a context and raised.
C4_Witness ==
    /\ Len(log) = Len(LoadedLog) + 2
    /\ \A k \in (Len(LoadedLog) + 1)..Len(log) :
          /\ IsDynamic(log[k]) /\ ~InContext(log[k])
          /\ log[k].outcome = "LookupError"
    /\ log[Len(log) - 1].registry = <<>>
    /\ log[Len(log)].registry # <<>>
    /\ given_registry = <<>>

(***************************************************************************)
(* C6.  The id of every descriptor appended by a dynamic registration      *)
(* begins with the id of the descriptor being run, followed by "/", with   *)
(* or without an explicit id and with or without a registry argument.      *)
(***************************************************************************)
C6_IdHierarchy ==
    \A k \in 1..Len(log) :
        (IsDynamic(log[k]) /\ log[k].outcome = "ok") =>
            LET h      == Appended(log[k])
                parent == log[k].dyn[1].parent[1].id
            IN /\ h.fn = log[k].fn
               /\ Len(h.id) > Len(parent)
               /\ SubSeq(h.id, 1, Len(parent) + 1) = parent \o <<"/">>

\* A sub-handler of a sub-handler, registered into a given registry under
\* an explicit id.
C6_Witness ==
    \E k \in 1..Len(log) :
        /\ IsDynamic(log[k]) /\ log[k].outcome = "ok"
        /\ log[k].id # <<>> /\ log[k].registry # <<>>
        /\ Appended(log[k]).id = <<"f", "/", "f", "/", "x">>

(***************************************************************************)
(* C7.  Two dynamic registrations under the same parent descriptor with    *)
(* the same explicit id, or without one and with the same callback name,   *)
(* give descriptors with equal ids.                                        *)
(***************************************************************************)
SameSubItem(c, d) ==
    /\ c.dyn[1].parent[1].id = d.dyn[1].parent[1].id
    /\ \/ c.id # <<>> /\ c.id = d.id
       \/ c.id = <<>> /\ d.id = <<>> /\ c.fn = d.fn

C7_IdempotentIds ==
    \A j, k \in 1..Len(log) :
        (/\ IsDynamic(log[j]) /\ log[j].outcome = "ok"
         /\ IsDynamic(log[k]) /\ log[k].outcome = "ok"
         /\ SameSubItem(log[j], log[k]))
            => Appended(log[j]).id = Appended(log[k]).id

\* Two invocations of the same descriptor, each with its own sub-registry,
\* have registered the same sub-item, the callbacks differing.
C7_Witness ==
    /\ invocations["t1"].handler = invocations["t2"].handler
    /\ Len(invocations["t1"].subregistry) = 1
    /\ Len(invocations["t2"].subregistry) = 1
    /\ invocations["t1"].subregistry[1].id = invocations["t2"].subregistry[1].id
    /\ invocations["t1"].subregistry[1].fn # invocations["t2"].subregistry[1].fn
    /\ \E j, k \in 1..Len(log) :
          /\ j # k
          /\ IsDynamic(log[j]) /\ log[j].outcome = "ok"
          /\ IsDynamic(log[k]) /\ log[k].outcome = "ok"
          /\ SameSubItem(log[j], log[k])

(***************************************************************************)
(* C8.  The descriptor delete registers requires the finalizer when        *)
(* optional is unset and does not when optional is true; the descriptors   *)
(* of resume, create, update, field and of the dynamic registration leave  *)
(* requires-finalizer unset.                                               *)
(***************************************************************************)
AppendedAfter(c) ==
    IF IsDynamic(c)
    THEN IF c.dyn[1].at[1].ref = "given"
         THEN given_registry'[Len(given_registry')]
         ELSE invocations'[c.dyn[1].at[1].ref].subregistry[
                  Len(invocations'[c.dyn[1].at[1].ref].subregistry)]
    ELSE ChangingListAfter(c)[Len(ChangingListAfter(c))]

C8_RequiresFinalizer ==
    [][(/\ CallMade /\ MadeCall.outcome = "ok"
        /\ MadeCall.entry \in ChangingEntries \cup {"this"})
          => LET c == MadeCall
                 h == AppendedAfter(c)
             IN IF c.entry = "delete"
                THEN /\ c.optional = <<>> => h.requires_finalizer = <<TRUE>>
                     /\ c.optional = <<TRUE>> => h.requires_finalizer = <<FALSE>>
                ELSE h.requires_finalizer = <<>>]_vars

\* A plain and an optional deletion handler were registered.
C8_Witness ==
    LET changing == registries["default"].resource_changing_handlers[Widgets]
    IN /\ Len(changing) = Len(LoadedHandlers) + 2
       /\ log[Len(log) - 1].entry = "delete" /\ log[Len(log) - 1].optional = <<>>
       /\ log[Len(log)].entry = "delete" /\ log[Len(log)].optional = <<TRUE>>
       /\ changing[Len(changing) - 1].requires_finalizer = <<TRUE>>
       /\ changing[Len(changing)].requires_finalizer = <<FALSE>>

(***************************************************************************)
(* Observations of the deprecation warnings.                               *)
(***************************************************************************)
WarningsOf(k) == Cardinality({i \in 1..Len(warnings) : warnings[i].call = k})

DeprecatedIn(filter) ==
    IF filter = <<>> THEN 0
    ELSE Cardinality({i \in 1..Len(filter[1]) : filter[1][i][2] = <<>>})

Deprecated(c) == DeprecatedIn(c.labels) + DeprecatedIn(c.annotations)

StoredInWidgets ==
    Len(registries["default"].resource_changing_handlers[Widgets])
    + Len(registries["default"].resource_watching_handlers[Widgets])

(***************************************************************************)
(* C9 as stated: a registration call with deprecated match rules warns     *)
(* once, however many such rules its two filters hold, and a call without  *)
(* any does not warn.                                                      *)
(***************************************************************************)
C9_WarnsOncePerCall ==
    \A k \in 1..Len(log) :
        WarningsOf(k) = IF Deprecated(log[k]) > 0 THEN 1 ELSE 0

(***************************************************************************)
(* C9 as the code has it: a registration call warns once for each          *)
(* deprecated match rule of its two filters, so at least once when there   *)
(* is one and not at all when there is none, and the descriptor is         *)
(* appended all the same.                                                  *)
(***************************************************************************)
C9_WarnsOncePerRule ==
    /\ \A k \in 1..Len(log) :
          /\ WarningsOf(k) = Deprecated(log[k])
          /\ log[k].outcome = "ok"
    /\ StoredInWidgets = Len(log)

\* A call with two deprecated label rules and one deprecated annotation
\* rule has warned three times and its descriptor is stored.
C9_Witness ==
    /\ Len(log) = 1
    /\ Deprecated(log[1]) = 3
    /\ Len(warnings) = 3
    /\ StoredInWidgets = 1

(***************************************************************************)
(* Observations of the lists of the operator registries: the activity list *)
(* and, per resource-type key, the watching and the changing list.         *)
(***************************************************************************)
StaticEntries ==
    {"startup", "cleanup", "login", "probe",
     "resume", "create", "update", "delete", "field", "event"}

Lists ==
    {[reg |-> r, kind |-> "activity", key |-> <<>>] : r \in Registries}
    \cup {[reg |-> r, kind |-> k, key |-> <<key>>] :
             r \in Registries, k \in {"watching", "changing"}, key \in Resources}

ListOf(regs, l) ==
    IF l.kind = "activity" THEN regs[l.reg].activity_handlers
    ELSE IF l.kind = "watching"
         THEN regs[l.reg].resource_watching_handlers[l.key[1]]
         ELSE regs[l.reg].resource_changing_handlers[l.key[1]]

\* The list a static call is to append to, read off its record.
ListFor(c) ==
    [reg  |-> RegistryOf(c),
     kind |-> IF c.entry \in {"startup", "cleanup", "login", "probe"}
              THEN "activity"
              ELSE IF c.entry = "event" THEN "watching" ELSE "changing",
     key  |-> c.resource]

(***************************************************************************)
(* C11.  A successful call of a static entry point appends exactly one     *)
(* descriptor, for the callback given, to exactly one list: the list of    *)
(* its kind (and key) in the registry passed, or in the default registry   *)
(* when none is passed.  Every other list of that registry and every list  *)
(* of every other registry stays as it was, and so does every descriptor   *)
(* already there: each list before the call is a prefix of the list after. *)
(***************************************************************************)
C11_AppendsExactlyOne ==
    [][(CallMade /\ MadeCall.entry \in StaticEntries /\ MadeCall.outcome = "ok")
          => LET target == ListFor(MadeCall)
                 before == ListOf(registries, target)
                 after  == ListOf(registries', target)
             IN /\ target \in Lists
                /\ Len(after) = Len(before) + 1
                /\ after[Len(after)].fn = MadeCall.fn
                /\ \A l \in Lists :
                      /\ SubSeq(ListOf(registries', l), 1,
                                Len(ListOf(registries, l))) = ListOf(registries, l)
                      /\ l # target =>
                            ListOf(registries', l) = ListOf(registries, l)
                /\ given_registry' = given_registry
                /\ invocations' = invocations]_vars

\* One call with the registry passed and one without: each registry holds
\* one descriptor, in lists of different kinds.
C11_Witness ==
    /\ Len(log) = 2
    /\ log[1].registry # <<>> /\ log[2].registry = <<>>
    /\ Len(registries["explicit"].activity_handlers) = 1
    /\ \E key \in Resources :
          Len(registries["default"].resource_watching_handlers[key]) = 1
    /\ Cardinality({l \in Lists : ListOf(registries, l) # <<>>}) = 2

====
